---- MODULE Spec2Model ----
(***************************************************************************)
(* Model of SMPLfitter/src/smpl_torch.py: the SMPL body model (class SMPL). *)
(*                                                                         *)
(* Numbers.  A float32 x is held as the integer x*Den (fixed point), a      *)
(* product is rounded back to that grid (Mul) and so is a quotient (Quot).  *)
(* Angles (the entries of pose, eps and theta) are integers in units of a   *)
(* sixteenth of a turn; cos and sin are tabulated on that grid and rounded  *)
(* to the fixed-point grid, the way float32 rounds cos(1e-8) to 1.0.        *)
(* Arrays are sequences, indexed from 1: column i of the code is i+1 here.  *)
(***************************************************************************)
EXTENDS Integers, Sequences, FiniteSets, TLC

VARIABLES smpl, rng, last, prev

vars == <<smpl, rng, last, prev>>

\* Fixed-point denominator: the integer n stands for the real n/Den.
Den == 2

\* The literal 24 of forward's post-processing step (torch.zeros((24, 1)) and
\* the reshape to (24, 4, 1)).
HardJ == 24

(***************************************************************************)
(* Arithmetic                                                              *)
(***************************************************************************)
Mul(a, b) == (a * b) \div Den

Quot(a, b) == (a * Den) \div b

ISqrt(n) == CHOOSE k \in 0..n : k * k <= n /\ (k + 1) * (k + 1) > n

\* torch.norm(x) of one row of three.
Norm(x) == ISqrt(x[1] * x[1] + x[2] * x[2] + x[3] * x[3])

CosMilli == <<1000, 924, 707, 383, 0, -383, -707, -924,
              -1000, -924, -707, -383, 0, 383, 707, 924>>

SinMilli == <<0, 383, 707, 924, 1000, 924, 707, 383,
              0, -383, -707, -924, -1000, -924, -707, -383>>

Cos(theta) == (CosMilli[(theta % Len(CosMilli)) + 1] * Den + 500) \div 1000

Sin(theta) == (SinMilli[(theta % Len(SinMilli)) + 1] * Den + 500) \div 1000

Add3(a, b) == <<a[1] + b[1], a[2] + b[2], a[3] + b[3]>>

Sub3(a, b) == <<a[1] - b[1], a[2] - b[2], a[3] - b[3]>>

\* sum of a[i]*b[i] for i in lo..hi, by halves.
RECURSIVE DotRange(_, _, _, _)
DotRange(a, b, lo, hi) ==
    IF lo > hi THEN 0
    ELSE IF lo = hi THEN Mul(a[lo], b[lo])
    ELSE LET mid == (lo + hi) \div 2
         IN  DotRange(a, b, lo, mid) + DotRange(a, b, mid + 1, hi)

\* sum over i of a[i]*b[i]: the contraction of tensordot and matmul.
Dot(a, b) == DotRange(a, b, 1, Len(a))

\* Column c of an array of rows.
Col(x, c) == [i \in 1..Len(x) |-> x[i][c]]

Eye3 == <<<<Den, 0, 0>>, <<0, Den, 0>>, <<0, 0, Den>>>>

MatMulEntry(A, B, a, b) ==
    Mul(A[a][1], B[1][b]) + Mul(A[a][2], B[2][b])
        + Mul(A[a][3], B[3][b]) + Mul(A[a][4], B[4][b])

MatMulRow(A, B, a) ==
    <<MatMulEntry(A, B, a, 1), MatMulEntry(A, B, a, 2),
      MatMulEntry(A, B, a, 3), MatMulEntry(A, B, a, 4)>>

\* torch.matmul of two 4x4 matrices.
MatMul(A, B) ==
    <<MatMulRow(A, B, 1), MatMulRow(A, B, 2), MatMulRow(A, B, 3), MatMulRow(A, B, 4)>>

MatVecEntry(A, x, a) ==
    Mul(A[a][1], x[1]) + Mul(A[a][2], x[2]) + Mul(A[a][3], x[3]) + Mul(A[a][4], x[4])

\* torch.matmul of a 4x4 matrix and a 4x1 column.
MatVec(A, x) ==
    <<MatVecEntry(A, x, 1), MatVecEntry(A, x, 2), MatVecEntry(A, x, 3), MatVecEntry(A, x, 4)>>

SubRow(a, b) == <<a[1] - b[1], a[2] - b[2], a[3] - b[3], a[4] - b[4]>>

MatSub(A, B) ==
    <<SubRow(A[1], B[1]), SubRow(A[2], B[2]), SubRow(A[3], B[3]), SubRow(A[4], B[4])>>

(***************************************************************************)
(* The random generator.  r.clone().normal_(std=1e-8) fills a fresh array   *)
(* from torch's global generator: the samples depend on the generator's     *)
(* state and every sample advances it.  The state is a position in a cyclic  *)
(* stream of samples (the seed is any position); a sample is -1, 0 or 1      *)
(* angle units, and no three consecutive samples are all 0 (a row of eps     *)
(* that is exactly zero is a null event).  Its length divides no number of   *)
(* samples a call draws here, so every call leaves the generator elsewhere.  *)
(***************************************************************************)
Stream == <<1, 0, -1, 0, 1>>

Sample(g, k) == Stream[((g + k) % Len(Stream)) + 1]

\* The array eps of n rows of three samples drawn from state g.
NormalFill(g, n) ==
    LET t[i \in 0..n] ==
            IF i = 0 THEN <<>>
            ELSE Append(t[i - 1], <<Sample(g, 3 * (i - 1)), Sample(g, 3 * (i - 1) + 1),
                                    Sample(g, 3 * (i - 1) + 2)>>)
    IN  t[n]

\* The generator's state after n rows were drawn.
Advance(g, n) == (g + 3 * n) % Len(Stream)

(***************************************************************************)
(* SMPL._rodrigues                                                         *)
(***************************************************************************)
\* One row r of the batch, perturbed by its row e of eps.
RodriguesRow(r, e) ==
    LET theta == Norm(Add3(r, e))
        r_hat == <<Quot(r[1], theta), Quot(r[2], theta), Quot(r[3], theta)>>
        cos   == Cos(theta)
        sin   == Sin(theta)
        m     == <<<<0, -r_hat[3], r_hat[2]>>,
                   <<r_hat[3], 0, -r_hat[1]>>,
                   <<-r_hat[2], r_hat[1], 0>>>>
        E(a, b) == Mul(cos, Eye3[a][b]) + Mul(Den - cos, Mul(r_hat[a], r_hat[b]))
                       + Mul(sin, m[a][b])
    IN  <<<<E(1, 1), E(1, 2), E(1, 3)>>,
          <<E(2, 1), E(2, 2), E(2, 3)>>,
          <<E(3, 1), E(3, 2), E(3, 3)>>>>

Rodrigues(r, eps) ==
    LET n == Len(r)
        t[i \in 0..n] == IF i = 0 THEN <<>> ELSE Append(t[i - 1], RodriguesRow(r[i], eps[i]))
    IN  t[n]

(***************************************************************************)
(* SMPL._with_zeros and SMPL._pack                                         *)
(***************************************************************************)
\* torch.cat((R, t), dim=1): the 3x4 block [R | t].
Cat(R, t) ==
    <<<<R[1][1], R[1][2], R[1][3], t[1]>>,
      <<R[2][1], R[2][2], R[2][3], t[2]>>,
      <<R[3][1], R[3][2], R[3][3], t[3]>>>>

WithZeros(x) == Append(x, <<0, 0, 0, Den>>)

\* One element of the batch: three zero columns, then the column x.
PackOne(x) == <<<<0, 0, 0, x[1]>>, <<0, 0, 0, x[2]>>, <<0, 0, 0, x[3]>>, <<0, 0, 0, x[4]>>>>

Pack(x) ==
    LET n == Len(x)
        t[i \in 0..n] == IF i = 0 THEN <<>> ELSE Append(t[i - 1], PackOne(x[i]))
    IN  t[n]

(***************************************************************************)
(* SMPL.forward, stage by stage                                            *)
(***************************************************************************)
\* Number of joints: self.kintree_table.shape[1].
NJoints(self) == Len(self.kintree_table[2])

\* id_to_col: a dict comprehension, so a joint id that occurs in several
\* columns maps to the last of them.
HasId(kt, id) == \E c \in 1..Len(kt[2]) : kt[2][c] = id

IdToCol(kt, id) ==
    CHOOSE c \in 1..Len(kt[2]) :
        /\ kt[2][c] = id
        /\ \A d \in 1..Len(kt[2]) : kt[2][d] = id => d <= c

\* The lookup id_to_col[kintree_table[0, i]] raises KeyError on an unknown id.
ParentKeyError(kt) == \E i \in 2..Len(kt[2]) : ~HasId(kt, kt[1][i])

\* A sweep that takes the column before i for the parent of column i.
ParentOfPrevious(kt, i) == i - 1

\* parent[i], the column of the parent of column i (i >= 2; entry 1 is unused).
ParentOf(kt, i) == IdToCol(kt, kt[1][i])

Parent(kt) ==
    LET n == Len(kt[2])
        t[i \in 0..n] ==
            IF i = 0 THEN <<>>
            ELSE Append(t[i - 1], IF i = 1 THEN 0 ELSE ParentOf(kt, i))
    IN  t[n]

\* A shape blend that adds the offset of vertex 1 to every vertex.
VShapedFirstBasis(self, beta) ==
    LET n == Len(self.v_template)
        t[v \in 0..n] ==
            IF v = 0 THEN <<>>
            ELSE Append(t[v - 1],
                        <<Dot(self.shapedirs[1][1], beta) + self.v_template[v][1],
                          Dot(self.shapedirs[1][2], beta) + self.v_template[v][2],
                          Dot(self.shapedirs[1][3], beta) + self.v_template[v][3]>>)
    IN  t[n]

\* v_shaped = tensordot(shapedirs, beta, dims=([2], [0])) + v_template
VShaped(self, beta) ==
    LET n == Len(self.v_template)
        t[v \in 0..n] ==
            IF v = 0 THEN <<>>
            ELSE Append(t[v - 1],
                        <<Dot(self.shapedirs[v][1], beta) + self.v_template[v][1],
                          Dot(self.shapedirs[v][2], beta) + self.v_template[v][2],
                          Dot(self.shapedirs[v][3], beta) + self.v_template[v][3]>>)
    IN  t[n]

\* J = matmul(J_regressor, v_shaped)
JointPositions(self, v_shaped) ==
    LET n == Len(self.J_regressor)
        t[j \in 0..n] ==
            IF j = 0 THEN <<>>
            ELSE Append(t[j - 1],
                        <<Dot(self.J_regressor[j], Col(v_shaped, 1)),
                          Dot(self.J_regressor[j], Col(v_shaped, 2)),
                          Dot(self.J_regressor[j], Col(v_shaped, 3))>>)
    IN  t[n]

\* lrotmin = reshape(R_cube_big[1:] - I_cube, (-1, 1)).squeeze()
Lrotmin(R_cube_big) ==
    LET n == Len(R_cube_big)
        t[i \in 1..n] ==
            IF i = 1 THEN <<>>
            ELSE t[i - 1] \o
                 <<R_cube_big[i][1][1] - Den, R_cube_big[i][1][2], R_cube_big[i][1][3],
                   R_cube_big[i][2][1], R_cube_big[i][2][2] - Den, R_cube_big[i][2][3],
                   R_cube_big[i][3][1], R_cube_big[i][3][2], R_cube_big[i][3][3] - Den>>
    IN  t[n]

\* v_posed = v_shaped + tensordot(posedirs, lrotmin, dims=([2], [0]))
PoseBlend(self, v_shaped, lrotmin) ==
    LET n == Len(v_shaped)
        t[v \in 0..n] ==
            IF v = 0 THEN <<>>
            ELSE Append(t[v - 1],
                        <<v_shaped[v][1] + Dot(self.posedirs[v][1], lrotmin),
                          v_shaped[v][2] + Dot(self.posedirs[v][2], lrotmin),
                          v_shaped[v][3] + Dot(self.posedirs[v][3], lrotmin)>>)
    IN  t[n]

\* A pose blend that looks at simplify only when the pose is short of rows.
VPosedFlagDropped(self, v_shaped, R_cube_big, simplify) ==
    IF simplify /\ Len(R_cube_big) < NJoints(self)
    THEN v_shaped
    ELSE PoseBlend(self, v_shaped, Lrotmin(R_cube_big))

\* The simplify branch of forward.
VPosed(self, v_shaped, R_cube_big, simplify) ==
    IF simplify THEN v_shaped ELSE PoseBlend(self, v_shaped, Lrotmin(R_cube_big))

\* The first entry of results: [R_0 | J_0] with the row (0, 0, 0, 1).
RootTransform(R_cube_big, J) == WithZeros(Cat(R_cube_big[1], J[1]))

\* A local transform that keeps the joint position, not its offset from the parent.
LocalTransformAbsolute(R_cube_big, J, i, p) == WithZeros(Cat(R_cube_big[i], J[i]))

\* The local transform of column i >= 2 against its parent column p.
LocalTransform(R_cube_big, J, i, p) == WithZeros(Cat(R_cube_big[i], Sub3(J[i], J[p])))

\* The loop over the columns 2..n: results grows by one entry per column.  An
\* index beyond the end of results (a parent not yet computed) or of
\* R_cube_big (a pose with fewer rows) raises IndexError and ends the call.
RECURSIVE Sweep(_, _, _, _, _, _)
Sweep(i, n, results, parent, R_cube_big, J) ==
    IF i > n THEN [error |-> "", line |-> 0, results |-> results]
    ELSE IF parent[i] > Len(results)
         THEN [error |-> "IndexError", line |-> 152, results |-> results]
    ELSE IF i > Len(R_cube_big)
         THEN [error |-> "IndexError", line |-> 156, results |-> results]
         ELSE Sweep(i + 1, n,
                    Append(results,
                           MatMul(results[parent[i]],
                                  LocalTransform(R_cube_big, J, i, parent[i]))),
                    parent, R_cube_big, J)

\* torch.cat((J, zeros((24, 1))), dim=1) needs J to have 24 rows.
PostShapeError(J) == Len(J) # HardJ

\* results = stacked - pack(matmul(stacked, reshape(cat((J, 0)), (24, 4, 1))))
RestColumns(stacked, J) ==
    LET n == Len(stacked)
        t[j \in 0..n] ==
            IF j = 0 THEN <<>>
            ELSE Append(t[j - 1], MatVec(stacked[j], <<J[j][1], J[j][2], J[j][3], 0>>))
    IN  t[n]

Relative(stacked, J) ==
    LET n == Len(stacked)
        packed == Pack(RestColumns(stacked, J))
        t[j \in 0..n] ==
            IF j = 0 THEN <<>> ELSE Append(t[j - 1], MatSub(stacked[j], packed[j]))
    IN  t[n]

\* One entry of T = tensordot(weights, results, dims=([1], [0])) for a vertex
\* with weight row w.
BlendEntry(w, results, a, b) ==
    LET n == Len(results)
        s[j \in 0..n] == IF j = 0 THEN 0 ELSE s[j - 1] + Mul(w[j], results[j][a][b])
    IN  s[n]

BlendRow(w, results, a) ==
    <<BlendEntry(w, results, a, 1), BlendEntry(w, results, a, 2),
      BlendEntry(w, results, a, 3), BlendEntry(w, results, a, 4)>>

Blend(w, results) ==
    <<BlendRow(w, results, 1), BlendRow(w, results, 2),
      BlendRow(w, results, 3), BlendRow(w, results, 4)>>

\* v = matmul(T, rest_shape_h)[:, :3]
Skin(self, results, v_posed) ==
    LET n == Len(v_posed)
        t[v \in 0..n] ==
            IF v = 0 THEN <<>>
            ELSE Append(t[v - 1],
                        LET x == MatVec(Blend(self.weights[v], results),
                                        <<v_posed[v][1], v_posed[v][2], v_posed[v][3], Den>>)
                        IN  <<x[1], x[2], x[3]>>)
    IN  t[n]

\* vertices = v + reshape(trans, (1, 3))
AddTrans(v, trans) ==
    LET n == Len(v)
        t[i \in 0..n] == IF i = 0 THEN <<>> ELSE Append(t[i - 1], Add3(v[i], trans))
    IN  t[n]

(***************************************************************************)
(* SMPL.forward: the whole call.  The result records what the call returned *)
(* or raised (status, and the source line that raised), its arguments, the   *)
(* generator state it started from, and every intermediate array it had      *)
(* computed by then (<<>> for one it never reached).                        *)
(***************************************************************************)
Call(status, line, beta, pose, trans, simplify, g, drew, v_shaped, J, R_cube_big, v_posed, stacked, results, vertices, f) ==
    [status |-> status, line |-> line, beta |-> beta, pose |-> pose, trans |-> trans,
     simplify |-> simplify, g |-> g, drew |-> drew, v_shaped |-> v_shaped, J |-> J,
     R_cube_big |-> R_cube_big, v_posed |-> v_posed, stacked |-> stacked,
     results |-> results, vertices |-> vertices, f |-> f]

NoCall ==
    Call("none", 0, <<>>, <<>>, <<>>, FALSE, 0, FALSE, <<>>, <<>>, <<>>, <<>>, <<>>,
         <<>>, <<>>, <<>>)

\* Lines 136-145: tensordot(posedirs, lrotmin) needs 9*(rows - 1) entries.
PoseBlendShapeError(self, pose, simplify) ==
    ~simplify /\ 9 * (Len(pose) - 1) # Len(self.posedirs[1][1])

Forward(self, beta, pose, trans, simplify, g) ==
    LET kt == self.kintree_table
        n  == NJoints(self)
    IN
    IF ParentKeyError(kt)
    THEN Call("KeyError", 131, beta, pose, trans, simplify, g, FALSE,
              <<>>, <<>>, <<>>, <<>>, <<>>, <<>>, <<>>, <<>>)
    ELSE IF Len(beta) # Len(self.shapedirs[1][1])
    THEN Call("RuntimeError", 132, beta, pose, trans, simplify, g, FALSE,
              <<>>, <<>>, <<>>, <<>>, <<>>, <<>>, <<>>, <<>>)
    ELSE
    LET parent     == Parent(kt)
        v_shaped   == VShaped(self, beta)
        J          == JointPositions(self, v_shaped)
        R_cube_big == Rodrigues(pose, NormalFill(g, Len(pose)))
    IN
    IF PoseBlendShapeError(self, pose, simplify)
    THEN Call("RuntimeError", 145, beta, pose, trans, simplify, g, TRUE,
              v_shaped, J, R_cube_big, <<>>, <<>>, <<>>, <<>>, <<>>)
    ELSE
    LET v_posed == VPosed(self, v_shaped, R_cube_big, simplify)
    IN
    IF Len(R_cube_big) = 0
    THEN Call("IndexError", 148, beta, pose, trans, simplify, g, TRUE,
              v_shaped, J, R_cube_big, v_posed, <<>>, <<>>, <<>>, <<>>)
    ELSE
    LET sweep == Sweep(2, n, <<RootTransform(R_cube_big, J)>>, parent, R_cube_big, J)
    IN
    IF sweep.error # ""
    THEN Call(sweep.error, sweep.line, beta, pose, trans, simplify, g, TRUE,
              v_shaped, J, R_cube_big, v_posed, sweep.results, <<>>, <<>>, <<>>)
    ELSE IF PostShapeError(J)
    THEN Call("RuntimeError", 171, beta, pose, trans, simplify, g, TRUE,
              v_shaped, J, R_cube_big, v_posed, sweep.results, <<>>, <<>>, <<>>)
    ELSE
    LET results == Relative(sweep.results, J)
        v       == Skin(self, results, v_posed)
    IN
    IF Len(trans) # 3
    THEN Call("RuntimeError", 188, beta, pose, trans, simplify, g, TRUE,
              v_shaped, J, R_cube_big, v_posed, sweep.results, results, <<>>, <<>>)
    ELSE Call("ok", 0, beta, pose, trans, simplify, g, TRUE,
              v_shaped, J, R_cube_big, v_posed, sweep.results, results,
              AddTrans(v, trans), self.f)

(***************************************************************************)
(* Parameter bundles: what pickle.load hands to SMPL.__init__.             *)
(***************************************************************************)
\* The kinematic tree of the released SMPL models: row 1 holds the parent ids
\* (the root's is 2**32 - 1, written -1 here), row 2 the joint ids.
SmplTree ==
    <<<<-1, 0, 0, 0, 1, 2, 3, 4, 5, 6, 7, 8, 9, 9, 9, 12, 13, 14, 16, 17, 18, 19, 20, 21>>,
      <<0, 1, 2, 3, 4, 5, 6, 7, 8, 9, 10, 11, 12, 13, 14, 15, 16, 17, 18, 19, 20, 21, 22, 23>>>>

\* A sorted tree of four joints whose ids are not its column numbers: column
\* c holds joint 100 - c and hangs under column c \div 2.
RelabelledTree ==
    <<<<-1, 99, 99, 98>>, <<99, 98, 97, 96>>>>

\* SmplTree with the columns of joints 1 and 4 exchanged: joint 4 now comes
\* before its parent, joint 1.
ShuffledTree ==
    <<<<-1, 1, 0, 0, 0, 2, 3, 4, 5, 6, 7, 8, 9, 9, 9, 12, 13, 14, 16, 17, 18, 19, 20, 21>>,
      <<0, 4, 2, 3, 1, 5, 6, 7, 8, 9, 10, 11, 12, 13, 14, 15, 16, 17, 18, 19, 20, 21, 22, 23>>>>

Template == <<<<0, 0, 0>>, <<2, 0, 0>>, <<2, 4, 6>>>>

\* shapedirs[v][c][s]: component 1 moves vertex 1 only, component 2 vertex 2
\* only, and neither moves vertex 3.
ShapeDirs ==
    <<<<<<Den, 0>>, <<0, 0>>, <<Den, 0>>>>,
      <<<<0, 0>>, <<0, Den>>, <<0, 0>>>>,
      <<<<0, 0>>, <<0, 0>>, <<0, 0>>>>>>

Faces == <<<<0, 1, 2>>>>

\* posedirs[v][c][k], k in 1..9*(n - 1).
PoseDirs(n) ==
    [v \in 1..Len(Template) |->
        [c \in 1..3 |->
            [k \in 1..(9 * (n - 1)) |-> IF (k + 2 * v + c) % 7 = 0 THEN Den ELSE 0]]]

\* J_regressor[j][v]: joint 2 lies midway between the vertices 1 and 2, every
\* other joint j on vertex ((j - 1) mod V) + 1.
JRegressor(n) ==
    [j \in 1..n |->
        [v \in 1..Len(Template) |->
            IF j = 2
            THEN (IF v = 1 THEN Den - (Den \div 2) ELSE IF v = 2 THEN Den \div 2 ELSE 0)
            ELSE (IF v = ((j - 1) % Len(Template)) + 1 THEN Den ELSE 0)]]

\* weights[v][j]: vertex 1 follows the root, vertex 2 the joints 2 and 3 in
\* two parts, vertex 3 the last joint.  Every row sums to 1.
Weights(n) ==
    [v \in 1..Len(Template) |->
        [j \in 1..n |->
            CASE v = 1 -> (IF j = 1 THEN Den ELSE 0)
              [] v = 2 -> (IF j = 2 THEN Den - (Den \div 2) ELSE IF j = 3 THEN Den \div 2 ELSE 0)
              [] OTHER -> (IF j = n THEN Den ELSE 0)]]

Bundle(kt) ==
    [J_regressor |-> JRegressor(Len(kt[2])), weights |-> Weights(Len(kt[2])),
     posedirs |-> PoseDirs(Len(kt[2])), v_template |-> Template,
     shapedirs |-> ShapeDirs, kintree_table |-> kt, f |-> Faces]

Bundles == {Bundle(SmplTree), Bundle(RelabelledTree), Bundle(ShuffledTree)}

\* The object before __init__ has run: no field is set.
NoModel ==
    [J_regressor |-> <<>>, weights |-> <<>>, posedirs |-> <<>>, v_template |-> <<>>,
     shapedirs |-> <<>>, kintree_table |-> <<<<>>, <<>>>>, f |-> <<>>]

(***************************************************************************)
(* Arguments of forward                                                    *)
(***************************************************************************)
\* The zero pose, and a pose that turns the root a quarter about x, joint 2 a
\* quarter about y and joint 3 an eighth about z (16 units are a full turn).
ZeroPose(n) == [i \in 1..n |-> <<0, 0, 0>>]

TurnedPose(n) ==
    [i \in 1..n |->
        CASE i = 1 -> <<4, 0, 0>>
          [] i = 2 -> <<0, 4, 0>>
          [] i = 3 -> <<0, 0, 2>>
          [] OTHER -> <<0, 0, 0>>]

Arg(beta, pose, trans, simplify) ==
    [beta |-> beta, pose |-> pose, trans |-> trans, simplify |-> simplify]

\* Arguments of the sizes the bundle expects (n joints) ...
FittingArgs(n) ==
    {Arg(x[1], x[2], x[3], s) :
        x \in {<<<<0, 0>>, ZeroPose(n), <<0, 0, 0>>>>,
               <<<<0, Den>>, ZeroPose(n), <<Den, 0, 3>>>>,
               <<<<0, 0>>, TurnedPose(n), <<0, 0, 0>>>>,
               <<<<Den, 0>>, TurnedPose(n), <<0, 0, 0>>>>,
               <<<<0, 0>>, TurnedPose(n), <<Den, 0, 3>>>>},
        s \in BOOLEAN}

\* ... and arguments one of which has another size: a beta of one entry, a
\* translation of two, a pose of two rows more and a pose of one row less.
MisfitArgs(n) ==
    {Arg(<<Den>>, ZeroPose(n), <<0, 0, 0>>, FALSE),
     Arg(<<0, 0>>, ZeroPose(n), <<Den, 0>>, FALSE)}
    \cup
    {Arg(<<0, 0>>, p, <<0, 0, 0>>, s) :
        p \in {TurnedPose(n + 2), TurnedPose(n - 1)}, s \in BOOLEAN}

Args(n) == FittingArgs(n) \cup MisfitArgs(n)

(***************************************************************************)
(* The state machine                                                       *)
(*   smpl  the fields of the SMPL object (NoModel before construction)      *)
(*   rng   the state of torch's global random generator                     *)
(*   last  the latest call of forward                                       *)
(*   prev  of the call before it: its beta and its v_shaped                 *)
(***************************************************************************)
Digest(c) == [called |-> c.status # "none", beta |-> c.beta, v_shaped |-> c.v_shaped]

Init ==
    /\ smpl = NoModel
    /\ rng \in 0..(Len(Stream) - 1)
    /\ last = NoCall
    /\ prev = Digest(NoCall)

\* SMPL.__init__: the seven arrays are stored as they come; nothing is checked.
Construct(params) ==
    /\ smpl = NoModel
    /\ smpl' = params
    /\ UNCHANGED <<rng, last, prev>>

\* One call of forward.
DoForward(a) ==
    /\ smpl # NoModel
    /\ last' = Forward(smpl, a.beta, a.pose, a.trans, a.simplify, rng)
    /\ rng' = IF last'.drew THEN Advance(rng, Len(a.pose)) ELSE rng
    /\ prev' = Digest(last)
    /\ UNCHANGED smpl

Next ==
    \/ \E params \in Bundles : Construct(params)
    \/ \E a \in Args(NJoints(smpl)) : DoForward(a)

Spec == Init /\ [][Next]_vars

(***************************************************************************)
(* Vocabulary of the properties                                            *)
(***************************************************************************)
Errors == {"KeyError", "IndexError", "RuntimeError"}

Constructed == smpl # NoModel

\* The joints of the bundle, and the rows of weights.
Joints == 1..NJoints(smpl)

Vertices == 1..Len(smpl.v_template)

\* Topological order: every column after the first hangs under an earlier one.
Sorted(kt) ==
    \A i \in 2..Len(kt[2]) : HasId(kt, kt[1][i]) /\ IdToCol(kt, kt[1][i]) < i

\* Two calls were given the same arguments.
SameArgs(c, d) ==
    /\ c.beta = d.beta
    /\ c.pose = d.pose
    /\ c.trans = d.trans
    /\ c.simplify = d.simplify

\* An argument of the call has another size than the bundle's S, J or 3.
Misfit(c) ==
    \/ Len(c.beta) # Len(smpl.shapedirs[1][1])
    \/ Len(c.pose) # NJoints(smpl)
    \/ Len(c.trans) # 3

\* The 4x4 identity.
Eye4 == <<<<Den, 0, 0, 0>>, <<0, Den, 0, 0>>, <<0, 0, Den, 0>>, <<0, 0, 0, Den>>>>

\* Every joint rotation of the call is the identity.
AllIdentity(c) ==
    /\ Len(c.R_cube_big) >= NJoints(smpl)
    /\ \A j \in Joints : c.R_cube_big[j] = Eye3

RowSum(w) == Dot(w, [j \in 1..Len(w) |-> Den])

\* The sum over s of shapedirs[v][c][s] is nothing for every coordinate c.
ZeroBasis(v, s) == \A c \in 1..3 : smpl.shapedirs[v][c][s] = 0

\* beta changed in component s alone, from 0 to a nonzero value.
SwitchedOn(b0, b1, s) ==
    /\ Len(b0) = Len(b1)
    /\ s \in 1..Len(b0)
    /\ b0[s] = 0
    /\ b1[s] # 0
    /\ \A r \in 1..Len(b0) : r # s => b0[r] = b1[r]

\* The column whose joint id is the parent id recorded for column j.
ColumnOfParent(j) ==
    CHOOSE q \in Joints : smpl.kintree_table[2][q] = smpl.kintree_table[1][j]

\* [R_j | t] with the row (0, 0, 0, 1).
Homogeneous(R, t) ==
    <<<<R[1][1], R[1][2], R[1][3], t[1]>>,
      <<R[2][1], R[2][2], R[2][3], t[2]>>,
      <<R[3][1], R[3][2], R[3][3], t[3]>>,
      <<0, 0, 0, Den>>>>

\* The ordered product of the local transforms from the root down to column j.
RECURSIVE PathProduct(_, _)
PathProduct(c, j) ==
    IF j = 1
    THEN Homogeneous(c.R_cube_big[1], c.J[1])
    ELSE MatMul(PathProduct(c, ColumnOfParent(j)),
                Homogeneous(c.R_cube_big[j], Sub3(c.J[j], c.J[ColumnOfParent(j)])))

\* The rotation block of the 4x4 matrix G applied to the point x.
Rotate(G, x) ==
    <<Mul(G[1][1], x[1]) + Mul(G[1][2], x[2]) + Mul(G[1][3], x[3]),
      Mul(G[2][1], x[1]) + Mul(G[2][2], x[2]) + Mul(G[2][3], x[3]),
      Mul(G[3][1], x[1]) + Mul(G[3][2], x[2]) + Mul(G[3][3], x[3])>>

\* T differs from G in the translation column alone, by the rotation block of
\* G applied to the rest position x, and so maps x to the translation of G.
RelativeOf(T, G, x) ==
    /\ \A a \in 1..4 : \A b \in 1..3 : T[a][b] = G[a][b]
    /\ \A a \in 1..3 : T[a][4] = G[a][4] - Rotate(G, x)[a]
    /\ T[4][4] = G[4][4]
    /\ \A a \in 1..3 : MatVec(T, <<x[1], x[2], x[3], Den>>)[a] = G[a][4]

(***************************************************************************)
(* C1.  A kinematic tree in non-topological order is rejected when the      *)
(* object is constructed, and no call of forward on such a bundle returns a  *)
(* mesh.  (Construct accepts every bundle, so the first part fails.)         *)
(***************************************************************************)
C1_UnsortedTreeRejected ==
    /\ Constructed => Sorted(smpl.kintree_table)
    /\ (Constructed /\ ~Sorted(smpl.kintree_table)) => last.status # "ok"

\* What does hold on a tree out of order: every call raises, none returns.
UnsortedTreeNeverReturns ==
    (Constructed /\ ~Sorted(smpl.kintree_table) /\ last.status # "none")
        => last.status \in Errors

C3_Deterministic ==
    [][(/\ last.status = "ok"
        /\ last'.status = "ok"
        /\ smpl' = smpl
        /\ SameArgs(last, last'))
       => /\ last'.R_cube_big = last.R_cube_big
          /\ last'.vertices = last.vertices]_vars

(***************************************************************************)
(* C4.  A call whose beta, pose or trans has another size than the bundle's  *)
(* S, J or 3 raises an error and returns no vertices, whatever simplify is.  *)
(***************************************************************************)
C4_MisfitRaises ==
    (Constructed /\ last.status # "none" /\ Misfit(last)) => last.status \in Errors

(***************************************************************************)
(* C5.  Shape locality, as claimed: between two calls that differ only in    *)
(* one component s of beta, switched from 0 to a nonzero value, an output    *)
(* vertex whose shapedirs entries for s are all zero keeps its value.        *)
(***************************************************************************)
C5_OutputShapeLocality ==
    [][(/\ last.status = "ok"
        /\ last'.status = "ok"
        /\ smpl' = smpl
        /\ last'.pose = last.pose
        /\ last'.trans = last.trans
        /\ last'.simplify = last.simplify)
       => \A s \in 1..Len(last.beta) :
            SwitchedOn(last.beta, last'.beta, s) =>
                \A v \in Vertices :
                    ZeroBasis(v, s) => last'.vertices[v] = last.vertices[v]]_vars

(***************************************************************************)
(* C5, amended.  The locality is that of the shaped mesh: between two calls  *)
(* whose beta differs only in one component s, switched from 0 to a nonzero  *)
(* value, v_shaped keeps its value at every vertex whose shapedirs entries    *)
(* for s are all zero.                                                      *)
(***************************************************************************)
C5_ShapedMeshLocality ==
    (Constructed /\ prev.v_shaped # <<>> /\ last.v_shaped # <<>>)
    => \A s \in 1..Len(prev.beta) :
         SwitchedOn(prev.beta, last.beta, s) =>
            \A v \in Vertices :
                ZeroBasis(v, s) => last.v_shaped[v] = prev.v_shaped[v]

C5_Witness ==
    /\ Constructed
    /\ prev.v_shaped # <<>>
    /\ last.v_shaped # <<>>
    /\ SwitchedOn(prev.beta, last.beta, 1)
    /\ ~ZeroBasis(1, 1)
    /\ last.v_shaped[1] # prev.v_shaped[1]
    /\ ZeroBasis(3, 1)
    /\ last.v_shaped[3] = prev.v_shaped[3]

(***************************************************************************)
(* C6.  The translation is applied rigidly: a call with the translation t    *)
(* returns, vertex by vertex, what the call with the same beta, pose and     *)
(* simplify and the zero translation returned, plus t.                       *)
(***************************************************************************)
C6_RigidTranslation ==
    [][(/\ last.status = "ok"
        /\ last'.status = "ok"
        /\ smpl' = smpl
        /\ last.trans = <<0, 0, 0>>
        /\ last'.beta = last.beta
        /\ last'.pose = last.pose
        /\ last'.simplify = last.simplify)
       => /\ Len(last'.vertices) = Len(last.vertices)
          /\ \A v \in Vertices :
                last'.vertices[v] = Add3(last.vertices[v], last'.trans)]_vars

(***************************************************************************)
(* C7.  With simplify set, the pose-blend stage leaves the shaped mesh as it  *)
(* is, for every pose: v_posed is v_shaped, and the mesh returned is the      *)
(* skinning of v_shaped.                                                    *)
(***************************************************************************)
C7_SimplifyKeepsShapedMesh ==
    (Constructed /\ last.simplify /\ last.drew)
    => /\ last.v_posed = last.v_shaped
       /\ last.status = "ok" =>
            last.vertices = AddTrans(Skin(smpl, last.results, last.v_shaped), last.trans)

C7_Witness ==
    /\ last.status = "ok"
    /\ last.simplify
    /\ last.v_posed = last.v_shaped
    /\ Len(last.pose) = NJoints(smpl)
    /\ PoseBlend(smpl, last.v_shaped, Lrotmin(last.R_cube_big)) # last.v_shaped

(***************************************************************************)
(* C8.  forward changes no field of the bundle, returns the faces as they    *)
(* are, and changes no state that another evaluation reads: evaluations       *)
(* share no mutable state.                                                  *)
(***************************************************************************)
C8_NoSharedMutableState ==
    [][Constructed
       => /\ smpl' = smpl
          /\ last'.status = "ok" => last'.f = smpl.f
          /\ rng' = rng]_vars

\* What does hold: the bundle is never written and the faces pass through.
BundleIsReadOnly ==
    [][Constructed => (smpl' = smpl /\ (last'.status = "ok" => last'.f = smpl.f))]_vars

(***************************************************************************)
(* C9.  On a topologically sorted tree the sweep reaches every column whose  *)
(* rotation it was given, starts from G_1 = [R_1 | J_1] and yields, for      *)
(* every column j, the ordered product of the local transforms along the     *)
(* path from the root to j, the parent of a column being the column whose    *)
(* joint id is the parent id recorded for it.                               *)
(***************************************************************************)
C9_SweepComposesAlongPath ==
    (Constructed /\ Sorted(smpl.kintree_table) /\ last.v_posed # <<>>
        /\ Len(last.pose) >= NJoints(smpl))
    => /\ Len(last.stacked) = NJoints(smpl)
       /\ \A j \in Joints : last.stacked[j] = PathProduct(last, j)

C9_Witness ==
    /\ last.status = "ok"
    /\ Sorted(smpl.kintree_table)
    /\ last.R_cube_big[1] # Eye3
    /\ last.R_cube_big[2] # Eye3
    /\ ColumnOfParent(5) = 2
    /\ last.stacked[5] = PathProduct(last, 5)
    /\ last.stacked[5] # Homogeneous(last.R_cube_big[5], last.J[5])

(***************************************************************************)
(* C10.  For a bundle with any number of joints, taken from the kinematic    *)
(* tree, the step after the sweep yields for every joint j a relative        *)
(* transform T_j that differs from G_j in the translation column alone, by   *)
(* the rotation block of G_j applied to J_j, so that T_j maps J_j to the      *)
(* translation of G_j.                                                      *)
(***************************************************************************)
C10_RelativeTransformForAnyJ ==
    (Constructed /\ Len(last.stacked) = NJoints(smpl))
    => /\ Len(last.results) = NJoints(smpl)
       /\ \A j \in Joints : RelativeOf(last.results[j], last.stacked[j], last.J[j])

\* What does hold: the same, for the calls that get past line 171.
RelativeTransformWhenComputed ==
    (Constructed /\ last.results # <<>>)
    => /\ Len(last.results) = NJoints(smpl)
       /\ \A j \in Joints : RelativeOf(last.results[j], last.stacked[j], last.J[j])

====
